---- MODULE Spec2Model ----
(***************************************************************************)
(* A model of rc.process.Process (src/src/rc/process/process.py): one      *)
(* supervisor object, the watcher ("pump") thread launched by start(),     *)
(* the calling contexts using the public methods, and the child process    *)
(* with its pipes as the environment.                                      *)
(*                                                                         *)
(* Text is a sequence of code points, raw pipe data a sequence of bytes.   *)
(* Python's None is the empty sequence where a value is optional.          *)
(***************************************************************************)
EXTENDS Integers, Sequences, FiniteSets, TLC

\* ------------------------------------------------------------------ bounds
MaxOut    == 1     \* chunks the child writes to stdout
MaxErr    == 1     \* chunks the child writes to stderr
MaxStdin  == 2     \* stdin() calls made by the callers
MaxCbs    == 1     \* callbacks registered in the lifecycle specifications
MaxStarts == 2     \* start() calls in SpecRestart
MaxFeed   == 2     \* chunks handed to _handle_io in SpecIO
MaxChunk  == 2     \* bytes per chunk in SpecIO
MaxIOCbs  == 2     \* callbacks registered in SpecIO
MaxFinds  == 1     \* find_line() calls in SpecFind
MaxTime   == 1     \* ticks of the clock in SpecFind
MaxSignals == 1    \* signal() calls in SpecSignal
MaxRegs   == 2     \* register_cb() calls in SpecReg
PipeCap   == 4     \* characters the pipe to the child's stdin holds

\* ------------------------------------------------------- program constants
NEW_     == "new"         \* NEW is a reserved word of TLA+
RUNNING  == "running"
DONE     == "done"
FAILED   == "failed"
CANCELED == "canceled"
FINAL    == {DONE, FAILED, CANCELED}

CB_STATE    == "state"
CB_OUT      == "out"
CB_ERR      == "err"
CB_OUT_LINE == "out_line"
CB_ERR_LINE == "err_line"
CbKinds     == {CB_STATE, CB_OUT, CB_ERR, CB_OUT_LINE, CB_ERR_LINE}

IO_OUT == "out"
IO_ERR == "err"
IoTypes == {IO_OUT, IO_ERR}

None == << >>                 \* Python's None for optional values
Some(v) == << v >>

\* bytes and code points used by the model
NL        == 10               \* '\n'
ByteA     == 97               \* 'a'
ByteLead  == 195              \* 0xC3, lead byte of a two-byte UTF-8 sequence
ByteCont  == 169              \* 0xA9, continuation byte; C3 A9 is U+00E9
Replacement == 65533          \* U+FFFD, what errors='replace' yields
SIGTERM   == 15

\* ------------------------------------------------------------ pure helpers
RECURSIVE Concat(_)
Concat(ss) == IF ss = << >> THEN << >> ELSE Head(ss) \o Concat(Tail(ss))

IsCont(b) == b >= 128 /\ b <= 191
IsLead2(b) == b >= 194 /\ b <= 223

\* bytes.decode('utf-8', errors='replace') for one- and two-byte sequences
RECURSIVE Decode(_)
Decode(data) ==
    IF data = << >> THEN << >>
    ELSE LET b == Head(data)
             r == Tail(data)
         IN  IF b < 128 THEN << b >> \o Decode(r)
             ELSE IF IsLead2(b) /\ r # << >> /\ IsCont(Head(r))
                  THEN << (b - 192) * 64 + (Head(r) - 128) >> \o Decode(Tail(r))
                  ELSE << Replacement >> \o Decode(r)

\* str.split('\n'): always at least one fragment
RECURSIVE Split(_)
Split(s) ==
    IF s = << >> THEN << << >> >>
    ELSE LET r == Split(Tail(s))
         IN  IF Head(s) = NL THEN << << >> >> \o r
             ELSE << << Head(s) >> \o Head(r) >> \o Tail(r)

HasNL(s) == \E i \in 1..Len(s) : s[i] = NL

Front(s) == SubSeq(s, 1, Len(s) - 1)
Last(s)  == s[Len(s)]

\* a slip of lines 648-649: the kept partial line is not put before the first
\* fragment
LinesOfNoCarry(lb, sdata) == Front(Split(sdata))

\* lines 648-655: the lines handed to the line callbacks for a chunk that
\* holds a newline
LinesOf(lbuf, sdata) ==
    LET lines == Split(sdata)
        first == << lbuf \o lines[1] >> \o Tail(lines)
    IN  Front(first)

\* the partial-line buffer after one chunk
LbufAfter(lbuf, sdata) ==
    IF ~HasNL(sdata) THEN lbuf \o sdata
    ELSE Last(Split(sdata))

\* ------------------------------------------------------------- callbacks
\* A registered callback: its registration number, and whether it raises
\* an Exception when called.
Callback(i, r) == [id |-> i, raises |-> r]

\* a slip of the try/except: the first exception ends the loop
RECURSIVE InvokeAbort(_, _, _)
InvokeAbort(cbl, kind, arg) ==
    IF cbl = << >> THEN [calls |-> << >>, errors |-> 0]
    ELSE LET c    == Head(cbl)
             this == << [kind |-> kind, cb |-> c.id, arg |-> arg] >>
         IN  IF c.raises THEN [calls |-> this, errors |-> 1]
             ELSE LET rest == InvokeAbort(Tail(cbl), kind, arg)
                  IN  [calls |-> this \o rest.calls, errors |-> rest.errors]

\* "for cb in cbs: try: cb(self, arg) / except Exception: _handle_error(e)"
\* every callback of the list is called, a raising one is reported
RECURSIVE Invoke(_, _, _)
Invoke(cbl, kind, arg) ==
    IF cbl = << >> THEN [calls |-> << >>, errors |-> 0]
    ELSE LET c    == Head(cbl)
             rest == Invoke(Tail(cbl), kind, arg)
         IN  [calls  |-> << [kind |-> kind, cb |-> c.id, arg |-> arg] >> \o rest.calls,
              errors |-> (IF c.raises THEN 1 ELSE 0) + rest.errors]

\* ------------------------------------------------------------------ state
VARIABLES
    cfg,        \* constructor arguments stdin / stdout / stderr
    state,      \* _state
    retcode,    \* _retcode, None or Some(code)
    proc,       \* _proc, None or Some(n): the n-th child created
    cancel,     \* _cancel, the cancellation Event
    buf_in,     \* _buf_in
    buf,        \* _buf_out, _buf_err
    lbuf,       \* _lbuf_out, _lbuf_err
    cbs,        \* _cbs
    fio,        \* _fout, _ferr: "None", or "open"
    started,    \* the Event start() waits on
    w,          \* the frame of the watcher thread running _watch
    child,      \* the child process
    pipe,       \* data written by the child and not yet read, per stream
    child_in,   \* text written to the child's stdin
    caller,     \* where the calling contexts are inside blocking methods
    res,        \* what the last call of each public method returned
    hist        \* history: callback invocations, data read, data returned

vars == << cfg, state, retcode, proc, cancel, buf_in, buf, lbuf, cbs, fio,
           started, w, child, pipe, child_in, caller, res, hist >>

obj_vars == << state, retcode, proc, cancel, buf_in, buf, lbuf, cbs, fio >>
env_vars == << child, pipe, child_in >>

buf_out  == buf[IO_OUT]
buf_err  == buf[IO_ERR]
lbuf_out == lbuf[IO_OUT]
lbuf_err == lbuf[IO_ERR]

\* the constructor's stream mode per io type
Mode(io) == IF io = IO_OUT THEN cfg.stdout ELSE cfg.stderr

\* the data used by the model
InitIn      == << 105 >>                         \* a stdin=<str> argument
InData(k)   == << 48 + k >>                      \* argument of the k-th stdin()
OutChunk(k) == << ByteA + (k - 1), NL >>         \* k-th write to stdout
ErrChunk(k) == << 65 + (k - 1) >>                \* k-th write to stderr
ExitCodes   == {0, 1}

Configs == [stdin  : {"off", "on", "str"},
            stdout : {"off", "on", "file"},
            stderr : {"off", "on", "file"}]

\* the state after __init__ (which ends with _advance(NEW))
InitObject ==
    /\ state = NEW_
    /\ retcode = None
    /\ proc = None
    /\ cancel = FALSE
    /\ buf_in = << >>
    /\ buf = [io \in IoTypes |-> << >>]
    /\ lbuf = [io \in IoTypes |-> << >>]
    /\ cbs = [k \in CbKinds |-> << >>]
    /\ fio = [io \in IoTypes |-> "None"]

InitRest ==
    /\ started = FALSE
    /\ w = [pc |-> "none", buf_in |-> << >>, streams_out |-> << >>,
            poll_ok |-> TRUE, io |-> IO_OUT, data |-> << >>, tmp |-> << >>,
            ret |-> 0]
    /\ child = [st |-> "none", code |-> 0, nout |-> 0, nerr |-> 0,
                nin |-> 0, blocked |-> "no"]
    /\ pipe = [io \in IoTypes |-> << >>]
    /\ child_in = << >>
    /\ caller = [start |-> "idle", wait |-> "idle", acc |-> "idle",
                 ret |-> << >>, exit |-> "idle",
                 find |-> "idle", pattern |-> << >>, timeout |-> None,
                 t0 |-> 0, now |-> 0, lines |-> << >>]
    /\ res = [stdin |-> "none", reg |-> "none", wait |-> None, waited |-> FALSE,
              acc |-> [io \in IoTypes |-> None], accessed |-> [io \in IoTypes |-> FALSE],
              find |-> [out |-> "none", line |-> << >>], signal |-> "none",
              reg_kind |-> "none"]
    /\ hist = [state_calls |-> << >>, chunk_calls |-> << >>, line_calls |-> << >>,
               errors |-> 0,
               fed |-> [io \in IoTypes |-> << >>],
               got |-> [io \in IoTypes |-> << >>],
               dirty |-> [io \in IoTypes |-> FALSE],
               nstdin |-> 0, ncb |-> 0, starts |-> 0, spawned |-> 0,
               nfind |-> 0, nsig |-> 0, early |-> {},
               cancel_running |-> FALSE,
               due |-> << >>, written |-> << >>]

Init ==
    /\ cfg \in Configs
    /\ InitObject
    /\ InitRest

\* the lock is free unless an accessor is between its read and its clear
LockFree == caller.acc = "idle"

\* ------------------------------------------------------------ _advance
\* a slip of _advance: no test for a FINAL state
AdvanceUnguarded(s) ==
    /\ LockFree
    /\ LET r == Invoke(cbs[CB_STATE], CB_STATE, s)
       IN  /\ state' = s
           /\ hist' = [hist EXCEPT !.state_calls = @ \o r.calls,
                                   !.errors = @ + r.errors]

\* _advance(state): under the lock, ignored in a FINAL state; else the state
\* is set and every state callback registered at that moment is called.
Advance(s) ==
    /\ LockFree
    /\ IF state \in FINAL
       THEN UNCHANGED << state, hist >>
       ELSE LET r == Invoke(cbs[CB_STATE], CB_STATE, s)
            IN  /\ state' = s
                /\ hist' = [hist EXCEPT !.state_calls = @ \o r.calls,
                                        !.errors = @ + r.errors]

\* _cleanup(): under the lock, closes the files and drops the child handle
Cleanup ==
    /\ LockFree
    /\ fio' = [io \in IoTypes |-> "None"]
    /\ proc' = None

\* Popen.terminate(): SIGTERM to a child that has not been reaped
Terminate ==
    child' = IF child.st = "alive"
             THEN [child EXCEPT !.st = "exited", !.code = 0 - SIGTERM]
             ELSE child

\* ------------------------------------------------------- public methods
\* start(): creates the Event and the thread, then waits for the Event
start_call ==
    /\ caller.start = "idle"
    /\ w.pc = "none"
    /\ started' = FALSE
    /\ w' = [w EXCEPT !.pc = "w502"]
    /\ caller' = [caller EXCEPT !.start = "waiting"]
    /\ hist' = [hist EXCEPT !.starts = @ + 1]
    /\ UNCHANGED << cfg, obj_vars, env_vars, res >>

\* started.wait() returns
start_return ==
    /\ caller.start = "waiting"
    /\ started
    /\ caller' = [caller EXCEPT !.start = "returned"]
    /\ UNCHANGED << cfg, obj_vars, env_vars, started, w, res, hist >>

\* a slip of stdin: no test for a FINAL state
stdin_unchecked(data) ==
    /\ LockFree
    /\ hist.nstdin < MaxStdin
    /\ res' = [res EXCEPT !.stdin = "ok"]
    /\ buf_in' = buf_in \o data
    /\ hist' = [hist EXCEPT !.nstdin = @ + 1, !.due = @ \o data]
    /\ UNCHANGED << cfg, state, retcode, proc, cancel, buf, lbuf, cbs, fio,
                    env_vars, started, w, caller >>

\* stdin(data)
stdin(data) ==
    /\ LockFree
    /\ hist.nstdin < MaxStdin
    /\ IF state \in FINAL
       THEN /\ res' = [res EXCEPT !.stdin = "RuntimeError"]
            /\ UNCHANGED buf_in
       ELSE /\ res' = [res EXCEPT !.stdin = "ok"]
            /\ buf_in' = buf_in \o data
    /\ hist' = [hist EXCEPT !.nstdin = @ + 1,
                            !.due = IF state \in FINAL THEN @ ELSE @ \o data]
    /\ UNCHANGED << cfg, state, retcode, proc, cancel, buf, lbuf, cbs, fio,
                    env_vars, started, w, caller >>

\* the stdout / stderr property, disabled stream: None, without the lock
accessor_off(io) ==
    /\ Mode(io) = "off"
    /\ res' = [res EXCEPT !.acc[io] = None, !.accessed[io] = TRUE]
    /\ UNCHANGED << cfg, obj_vars, env_vars, started, w, caller, hist >>

\* the stdout / stderr property: "with self._lock: ret = str(buf)"
accessor_read(io) ==
    /\ Mode(io) # "off"
    /\ LockFree
    /\ caller' = [caller EXCEPT !.acc = io, !.ret = buf[io]]
    /\ UNCHANGED << cfg, obj_vars, env_vars, started, w, res, hist >>

\* a slip of the accessor: the buffer is returned and not cleared
accessor_keep(io) ==
    /\ caller.acc = io
    /\ caller' = [caller EXCEPT !.acc = "idle", !.ret = << >>]
    /\ res' = [res EXCEPT !.acc[io] = Some(caller.ret), !.accessed[io] = TRUE]
    /\ hist' = [hist EXCEPT !.got[io] = @ \o caller.ret, !.dirty[io] = FALSE]
    /\ UNCHANGED << cfg, obj_vars, env_vars, started, w >>

\* "buf.clear()", the lock is released and ret returned
accessor_clear(io) ==
    /\ caller.acc = io
    /\ buf' = [buf EXCEPT ![io] = << >>]
    /\ caller' = [caller EXCEPT !.acc = "idle", !.ret = << >>]
    /\ res' = [res EXCEPT !.acc[io] = Some(caller.ret), !.accessed[io] = TRUE]
    /\ hist' = [hist EXCEPT !.got[io] = @ \o caller.ret, !.dirty[io] = FALSE]
    /\ UNCHANGED << cfg, state, retcode, proc, cancel, buf_in, lbuf, cbs, fio,
                    env_vars, started, w >>

\* the body of cancel(): nothing without a child handle, else the flag is
\* set and the child terminated
Cancel ==
    IF proc = None
    THEN UNCHANGED << cancel, child, hist >>
    ELSE /\ cancel' = TRUE
         /\ Terminate
         /\ hist' = [hist EXCEPT !.cancel_running =
                        @ \/ (state = RUNNING /\ caller.start = "returned")]

\* a slip of cancel(): it sets the state CANCELED itself
cancel_call_advances ==
    /\ LockFree
    /\ Cancel
    /\ state' = IF proc # None /\ state \notin FINAL THEN CANCELED ELSE state
    /\ UNCHANGED << cfg, retcode, proc, buf_in, buf, lbuf, cbs, fio,
                    pipe, child_in, started, w, caller, res >>

\* cancel() (and kill(), its alias)
cancel_call ==
    /\ LockFree
    /\ Cancel
    /\ UNCHANGED << cfg, state, retcode, proc, buf_in, buf, lbuf, cbs, fio,
                    pipe, child_in, started, w, caller, res >>

\* a slip of register_cb: the callback is put in front of the others
register_cb_front(kind, raises) ==
    /\ IF kind \notin DOMAIN cbs
       THEN /\ res' = [res EXCEPT !.reg = "ValueError", !.reg_kind = kind]
            /\ UNCHANGED cbs
       ELSE /\ LockFree
            /\ res' = [res EXCEPT !.reg = "ok", !.reg_kind = kind]
            /\ cbs' = [cbs EXCEPT ![kind] = << Callback(hist.ncb + 1, raises) >> \o @]
    /\ hist' = [hist EXCEPT !.ncb = @ + 1,
                            !.early = IF hist.starts = 0 /\ kind \in DOMAIN cbs
                                      THEN @ \cup {hist.ncb + 1} ELSE @]
    /\ UNCHANGED << cfg, state, retcode, proc, cancel, buf_in, buf, lbuf, fio,
                    env_vars, started, w, caller >>

\* register_cb(cb_type, cb)
register_cb(kind, raises) ==
    /\ IF kind \notin DOMAIN cbs
       THEN /\ res' = [res EXCEPT !.reg = "ValueError", !.reg_kind = kind]
            /\ UNCHANGED cbs
       ELSE /\ LockFree
            /\ res' = [res EXCEPT !.reg = "ok", !.reg_kind = kind]
            /\ cbs' = [cbs EXCEPT ![kind] = Append(@, Callback(hist.ncb + 1, raises))]
    /\ hist' = [hist EXCEPT !.ncb = @ + 1,
                            !.early = IF hist.starts = 0 /\ kind \in DOMAIN cbs
                                      THEN @ \cup {hist.ncb + 1} ELSE @]
    /\ UNCHANGED << cfg, state, retcode, proc, cancel, buf_in, buf, lbuf, fio,
                    env_vars, started, w, caller >>

\* wait(): "if self._proc is None: return", else the polling loop is entered
wait_call ==
    /\ caller.wait = "idle"
    /\ IF proc = None
       THEN /\ res' = [res EXCEPT !.wait = None, !.waited = TRUE]
            /\ UNCHANGED caller
       ELSE /\ caller' = [caller EXCEPT !.wait = "polling"]
            /\ res' = [res EXCEPT !.waited = FALSE]
    /\ UNCHANGED << cfg, obj_vars, env_vars, started, w, hist >>

\* wait(): a round of the loop that finds the state FINAL
wait_final ==
    /\ caller.wait = "polling"
    /\ LockFree
    /\ state \in FINAL
    /\ res' = [res EXCEPT !.wait = retcode, !.waited = TRUE]
    /\ caller' = [caller EXCEPT !.wait = "idle"]
    /\ UNCHANGED << cfg, obj_vars, env_vars, started, w, hist >>

\* wait(timeout): a round that finds the state not FINAL and the timeout
\* elapsed; the loop is left and None returned
wait_timeout ==
    /\ caller.wait = "polling"
    /\ LockFree
    /\ state \notin FINAL
    /\ res' = [res EXCEPT !.wait = None, !.waited = TRUE]
    /\ caller' = [caller EXCEPT !.wait = "idle"]
    /\ UNCHANGED << cfg, obj_vars, env_vars, started, w, hist >>

\* __exit__: "if self.state not in self.FINAL: self.cancel()"
exit_cancel ==
    /\ caller.exit = "idle"
    /\ LockFree
    /\ IF state \notin FINAL
       THEN Cancel
       ELSE UNCHANGED << cancel, child, hist >>
    /\ caller' = [caller EXCEPT !.exit = "cleanup"]
    /\ UNCHANGED << cfg, state, retcode, proc, buf_in, buf, lbuf, cbs, fio,
                    pipe, child_in, started, w, res >>

\* __exit__: "finally: self._cleanup()"
exit_cleanup ==
    /\ caller.exit = "cleanup"
    /\ Cleanup
    /\ caller' = [caller EXCEPT !.exit = "done"]
    /\ UNCHANGED << cfg, state, retcode, cancel, buf_in, buf, lbuf, cbs,
                    env_vars, started, w, res, hist >>

\* ---------------------------------------------------------------- find_line
\* pattern.match(line) for a literal pattern: a match at the start of the line
Match(pattern, line) ==
    /\ Len(pattern) <= Len(line)
    /\ SubSeq(line, 1, Len(pattern)) = pattern

Matching(pattern, lines) == {i \in 1..Len(lines) : Match(pattern, lines[i])}

\* a slip of the loop over the lines: the last matching line
LastMatch(pattern, lines) ==
    lines[CHOOSE i \in Matching(pattern, lines) :
              \A j \in Matching(pattern, lines) : j <= i]

\* "for line in lines: if pattern.match(line): return line"
FirstMatch(pattern, lines) ==
    lines[CHOOSE i \in Matching(pattern, lines) :
              \A j \in Matching(pattern, lines) : i <= j]

\* find_line(pattern, timeout): the pattern is compiled, the start time taken
find_line_call(pattern, timeout) ==
    /\ caller.find = "idle"
    /\ hist.nfind < MaxFinds
    /\ caller' = [caller EXCEPT !.find = "loop", !.pattern = pattern,
                                !.timeout = timeout, !.t0 = caller.now]
    /\ hist' = [hist EXCEPT !.nfind = @ + 1]
    /\ UNCHANGED << cfg, obj_vars, env_vars, started, w, res >>

\* "with self._lock: lines = str(self._buf_out).split('\n')"
find_line_read ==
    /\ caller.find = "loop"
    /\ LockFree
    /\ caller' = [caller EXCEPT !.find = "lines", !.lines = Split(buf[IO_OUT])]
    /\ UNCHANGED << cfg, obj_vars, env_vars, started, w, res, hist >>

\* the rest of a round: the first matching line is returned; else None when
\* "start - time.time() > timeout"; else RuntimeError in a FINAL state; else
\* the call sleeps and goes round again
find_line_decide ==
    /\ caller.find = "lines"
    /\ IF Matching(caller.pattern, caller.lines) # {}
       THEN /\ res' = [res EXCEPT !.find = [out |-> "line",
                          line |-> FirstMatch(caller.pattern, caller.lines)]]
            /\ caller' = [caller EXCEPT !.find = "idle", !.lines = << >>]
       ELSE IF caller.timeout # None /\ caller.t0 - caller.now > caller.timeout[1]
       THEN /\ res' = [res EXCEPT !.find = [out |-> "None", line |-> << >>]]
            /\ caller' = [caller EXCEPT !.find = "idle", !.lines = << >>]
       ELSE IF state \in FINAL
       THEN /\ res' = [res EXCEPT !.find = [out |-> "RuntimeError", line |-> << >>]]
            /\ caller' = [caller EXCEPT !.find = "idle", !.lines = << >>]
       ELSE /\ caller' = [caller EXCEPT !.find = "loop", !.lines = << >>]
            /\ UNCHANGED res
    /\ UNCHANGED << cfg, obj_vars, env_vars, started, w, hist >>

\* time.time() grows
tick ==
    /\ caller.now < MaxTime
    /\ caller' = [caller EXCEPT !.now = @ + 1]
    /\ UNCHANGED << cfg, obj_vars, env_vars, started, w, res, hist >>

\* -------------------------------------------------------------------- signal
\* the watcher's proc.poll() has collected the exit status of the child
Reaped == w.pc \in {"w574", "w576", "w577", "w587"}

\* a slip of signal(): it sets the cancellation flag as cancel() does
signal_cancels(sig) ==
    /\ LockFree
    /\ hist.nsig < MaxSignals
    /\ IF proc = None
       THEN /\ res' = [res EXCEPT !.signal = "noop"]
            /\ UNCHANGED << child, cancel >>
       ELSE /\ res' = [res EXCEPT !.signal = "sent"]
            /\ cancel' = TRUE
            /\ child' = IF sig = 0 \/ child.st # "alive" THEN child
                        ELSE [child EXCEPT !.st = "exited", !.code = 0 - sig]
    /\ hist' = [hist EXCEPT !.nsig = @ + 1]
    /\ UNCHANGED << cfg, state, retcode, proc, buf_in, buf, lbuf, cbs, fio,
                    pipe, child_in, started, w, caller >>

\* signal(sig): nothing without a child handle, else os.kill(pid, sig): a
\* terminating signal ends a live child, signal 0 only tests for the process,
\* and a pid that was reaped raises ProcessLookupError
signal(sig) ==
    /\ LockFree
    /\ hist.nsig < MaxSignals
    /\ IF proc = None
       THEN /\ res' = [res EXCEPT !.signal = "noop"]
            /\ UNCHANGED child
       ELSE IF child.st = "alive"
       THEN /\ res' = [res EXCEPT !.signal = "sent"]
            /\ child' = IF sig = 0 THEN child
                        ELSE [child EXCEPT !.st = "exited", !.code = 0 - sig]
       ELSE /\ res' = [res EXCEPT !.signal =
                          IF Reaped THEN "ProcessLookupError" ELSE "sent"]
            /\ UNCHANGED child
    /\ hist' = [hist EXCEPT !.nsig = @ + 1]
    /\ UNCHANGED << cfg, obj_vars, pipe, child_in, started, w, caller >>

\* ------------------------------------------------------------ the child
\* the child writes a chunk to one of its piped output streams
child_write(io) ==
    /\ child.st = "alive"
    /\ child.blocked = "no"
    /\ Mode(io) # "off"
    /\ IF io = IO_OUT
       THEN /\ child.nout < MaxOut
            /\ pipe' = [pipe EXCEPT ![io] = Append(@, OutChunk(child.nout + 1))]
            /\ child' = [child EXCEPT !.nout = @ + 1]
       ELSE /\ child.nerr < MaxErr
            /\ pipe' = [pipe EXCEPT ![io] = Append(@, ErrChunk(child.nerr + 1))]
            /\ child' = [child EXCEPT !.nerr = @ + 1]
    /\ UNCHANGED << cfg, obj_vars, child_in, started, w, caller, res, hist >>

\* the child exits by itself
child_exit(code) ==
    /\ child.st = "alive"
    /\ child.blocked = "no"
    /\ child' = [child EXCEPT !.st = "exited", !.code = code]
    /\ UNCHANGED << cfg, obj_vars, pipe, child_in, started, w, caller, res, hist >>

\* the first part of a write larger than the pipe holds: the pipe is full and
\* the child stays in its write call until the pipe has been read
FillChunk == << 122 >>

child_fill(io) ==
    /\ child.st = "alive"
    /\ child.blocked = "no"
    /\ Mode(io) # "off"
    /\ (IF io = IO_OUT THEN child.nout < MaxOut ELSE child.nerr < MaxErr)
    /\ pipe' = [pipe EXCEPT ![io] = Append(@, FillChunk)]
    /\ child' = [child EXCEPT !.blocked = io]
    /\ UNCHANGED << cfg, obj_vars, child_in, started, w, caller, res, hist >>

\* the pipe has been read: the rest of the large write goes into it and the
\* write call of the child returns
child_unblock(io) ==
    /\ child.st = "alive"
    /\ child.blocked = io
    /\ pipe[io] = << >>
    /\ IF io = IO_OUT
       THEN /\ pipe' = [pipe EXCEPT ![io] = Append(@, OutChunk(child.nout + 1))]
            /\ child' = [child EXCEPT !.nout = @ + 1, !.blocked = "no"]
       ELSE /\ pipe' = [pipe EXCEPT ![io] = Append(@, ErrChunk(child.nerr + 1))]
            /\ child' = [child EXCEPT !.nerr = @ + 1, !.blocked = "no"]
    /\ UNCHANGED << cfg, obj_vars, child_in, started, w, caller, res, hist >>

\* the characters written to the child's stdin that it has not read
InPipe == Len(child_in) - child.nin

\* the child reads what is in its stdin pipe (it does not while it is inside
\* a write call)
child_read ==
    /\ child.st = "alive"
    /\ child.blocked = "no"
    /\ InPipe > 0
    /\ child' = [child EXCEPT !.nin = Len(child_in)]
    /\ UNCHANGED << cfg, obj_vars, pipe, child_in, started, w, caller, res, hist >>

\* what poll_in.poll() waits for: room in the pipe, or its read end closed
Writable == child.st # "alive" \/ InPipe < PipeCap

\* ------------------------------------------------- _watch, the pump thread
\* an exception leaves _watch: the thread ends (start() runs _watch itself,
\* not _safe_watch, so nothing catches it)
Crash == w' = [w EXCEPT !.pc = "crashed"]

Goto(pc) == w' = [w EXCEPT !.pc = pc]

\* lines 502-504: the redirect files are opened, a stdin string replaces _buf_in
watch_open ==
    /\ w.pc = "w502"
    /\ fio' = [io \in IoTypes |-> IF Mode(io) = "file" THEN "open" ELSE fio[io]]
    /\ buf_in' = IF cfg.stdin = "str" THEN InitIn ELSE buf_in
    /\ hist' = [hist EXCEPT !.due = buf_in', !.written = << >>]
    /\ Goto("w510")
    /\ UNCHANGED << cfg, state, retcode, proc, cancel, buf, lbuf, cbs,
                    env_vars, started, caller, res >>

\* line 510: Popen creates the child
watch_spawn ==
    /\ w.pc = "w510"
    /\ proc' = Some(hist.spawned + 1)
    /\ hist' = [hist EXCEPT !.spawned = @ + 1]
    /\ child' = [child EXCEPT !.st = "alive", !.code = 0, !.nin = 0,
                              !.blocked = "no"]
    /\ pipe' = [io \in IoTypes |-> << >>]
    /\ child_in' = << >>
    /\ Goto("w514")
    /\ UNCHANGED << cfg, state, retcode, cancel, buf_in, buf, lbuf, cbs, fio,
                    started, caller, res >>

\* line 510: Popen raises (the command cannot be launched)
watch_spawn_fails ==
    /\ w.pc = "w510"
    /\ Crash
    /\ UNCHANGED << cfg, obj_vars, env_vars, started, caller, res, hist >>

\* line 514: started.set()
watch_started ==
    /\ w.pc = "w514"
    /\ started' = TRUE
    /\ Goto("w516")
    /\ UNCHANGED << cfg, obj_vars, env_vars, caller, res, hist >>

\* line 516: self._advance(self.RUNNING)
watch_running ==
    /\ w.pc = "w516"
    /\ Advance(RUNNING)
    /\ Goto("w534")
    /\ UNCHANGED << cfg, retcode, proc, cancel, buf_in, buf, lbuf, cbs, fio,
                    env_vars, started, caller, res >>

\* lines 534-536: is there input to write; if so poll_in.poll(), which has no
\* timeout, returns when the child's stdin is ready
watch_stdin_check ==
    /\ w.pc = "w534"
    /\ IF cfg.stdin # "off" /\ buf_in # << >>
       THEN Writable /\ Goto("w538")
       ELSE w' = [w EXCEPT !.pc = "w548", !.poll_ok = TRUE]
    /\ UNCHANGED << cfg, obj_vars, env_vars, started, caller, res, hist >>

\* a slip of the swap: the pending input is taken and not cleared
watch_stdin_keep ==
    /\ w.pc = "w538"
    /\ LockFree
    /\ w' = [w EXCEPT !.pc = "w542", !.buf_in = buf_in]
    /\ UNCHANGED << cfg, obj_vars, env_vars, started, caller, res, hist >>

\* lines 538-540: under the lock, the pending input is taken
watch_stdin_swap ==
    /\ w.pc = "w538"
    /\ LockFree
    /\ w' = [w EXCEPT !.pc = "w542", !.buf_in = buf_in]
    /\ buf_in' = << >>
    /\ UNCHANGED << cfg, state, retcode, proc, cancel, buf, lbuf, cbs, fio,
                    env_vars, started, caller, res, hist >>

\* lines 542-544: the input is written to the child, and flush() returns when
\* the pipe has taken all of it: what the pipe has no room for stays with the
\* watcher, inside flush(); a broken pipe is ignored
watch_stdin_write ==
    /\ w.pc = "w542"
    /\ IF proc = None
       THEN /\ Crash
            /\ UNCHANGED << child_in, hist >>
       ELSE IF child.st # "alive" \/ Len(w.buf_in) <= PipeCap - InPipe
       THEN /\ w' = [w EXCEPT !.pc = "w548", !.poll_ok = TRUE, !.buf_in = << >>]
            /\ child_in' = IF child.st = "alive" THEN child_in \o w.buf_in
                           ELSE child_in
            /\ hist' = [hist EXCEPT !.written = @ \o w.buf_in]
       ELSE LET room == PipeCap - InPipe
            IN  /\ room > 0
                /\ w' = [w EXCEPT !.buf_in = SubSeq(@, room + 1, Len(@))]
                /\ child_in' = child_in \o SubSeq(w.buf_in, 1, room)
                /\ hist' = [hist EXCEPT !.written = @ \o SubSeq(w.buf_in, 1, room)]
    /\ UNCHANGED << cfg, obj_vars, child, pipe, started, caller, res >>

\* ------------------------------------------------------------ _handle_io
ChunkKind(io) == IF io = IO_OUT THEN CB_OUT ELSE CB_ERR
LineKind(io)  == IF io = IO_OUT THEN CB_OUT_LINE ELSE CB_ERR_LINE

\* lines 635-661 for a chunk `data` of stream `io`, where `old` is the value of
\* the raw buffer that "buf += sdata" extends
HandleIo(io, data, old) ==
    LET sdata == Decode(data)
        rc    == Invoke(cbs[ChunkKind(io)], ChunkKind(io), sdata)
        rl    == IF HasNL(sdata)
                 THEN Invoke(cbs[LineKind(io)], LineKind(io), LinesOf(lbuf[io], sdata))
                 ELSE [calls |-> << >>, errors |-> 0]
    IN  /\ buf' = [buf EXCEPT ![io] = old \o sdata]
        /\ lbuf' = [lbuf EXCEPT ![io] = LbufAfter(@, sdata)]
        /\ hist' = [hist EXCEPT !.chunk_calls = @ \o rc.calls,
                                !.line_calls = @ \o rl.calls,
                                !.errors = @ + rc.errors + rl.errors,
                                !.fed[io] = Append(@, data),
                                !.dirty[io] = TRUE]

\* ------------------------------------------------- _watch, the read loop
\* what poll() reports for a registered stream
Event(io) ==
    IF Mode(io) = "off" THEN "none"
    ELSE IF pipe[io] # << >>
         THEN (IF child.st = "exited" THEN "POLLIN|POLLHUP" ELSE "POLLIN")
         ELSE (IF child.st = "exited" THEN "POLLHUP" ELSE "none")

IsReady(e) == e.ev # "none"

StreamsOut ==
    SelectSeq(<< [fd |-> IO_OUT, ev |-> Event(IO_OUT)],
                 [fd |-> IO_ERR, ev |-> Event(IO_ERR)] >>, IsReady)

\* lines 548-554: poll_out.poll(polldelay); nothing ready ends the read loop
watch_poll ==
    /\ w.pc = "w548"
    /\ IF (cfg.stdout # "off" \/ cfg.stderr # "off") /\ w.poll_ok
          /\ StreamsOut # << >>
       THEN w' = [w EXCEPT !.pc = "w556", !.streams_out = StreamsOut]
       ELSE w' = [w EXCEPT !.pc = "w571", !.streams_out = << >>]
    /\ UNCHANGED << cfg, obj_vars, env_vars, started, caller, res, hist >>

\* lines 556-561: the next (fd, ev); a hang-up ends the read loop
watch_for ==
    /\ w.pc = "w556"
    /\ IF w.streams_out = << >>
       THEN Goto("w548")
       ELSE IF Head(w.streams_out).ev \in {"POLLERR", "POLLHUP", "POLLNVAL"}
            THEN w' = [w EXCEPT !.poll_ok = FALSE, !.streams_out = Tail(@)]
            ELSE Goto("w563")
    /\ UNCHANGED << cfg, obj_vars, env_vars, started, caller, res, hist >>

\* os.read(fd, bufsize) of the ready stream `io`, then _handle_io is entered
ReadChunk(io) ==
    /\ w' = [w EXCEPT !.pc = "w631", !.io = io,
                      !.data = IF pipe[io] = << >> THEN << >> ELSE Head(pipe[io])]
    /\ pipe' = [pipe EXCEPT ![io] = IF @ = << >> THEN @ ELSE Tail(@)]

\* lines 563-565: "if fd == self._proc.stdout.fileno()"
watch_is_stdout ==
    /\ w.pc = "w563"
    /\ IF proc = None \/ cfg.stdout = "off"
       THEN Crash /\ UNCHANGED pipe
       ELSE IF Head(w.streams_out).fd = IO_OUT
            THEN ReadChunk(IO_OUT)
            ELSE Goto("w567") /\ UNCHANGED pipe
    /\ UNCHANGED << cfg, obj_vars, child, child_in, started, caller, res, hist >>

\* lines 567-569: "if fd == self._proc.stderr.fileno()"
watch_is_stderr ==
    /\ w.pc = "w567"
    /\ IF proc = None \/ cfg.stderr = "off"
       THEN Crash /\ UNCHANGED pipe
       ELSE IF Head(w.streams_out).fd = IO_ERR
            THEN ReadChunk(IO_ERR)
            ELSE w' = [w EXCEPT !.pc = "w556", !.streams_out = Tail(@)] /\ UNCHANGED pipe
    /\ UNCHANGED << cfg, obj_vars, child, child_in, started, caller, res, hist >>

\* lines 631-637: the chunk (bytes) is written to the redirect file, which is
\* a text file and raises TypeError; else "buf += sdata" reads the buffer
handle_io_load ==
    /\ w.pc = "w631"
    /\ IF fio[w.io] # "None"
       THEN Crash
       ELSE w' = [w EXCEPT !.pc = "w637", !.tmp = buf[w.io]]
    /\ UNCHANGED << cfg, obj_vars, env_vars, started, caller, res, hist >>

\* lines 637-661: "buf += sdata" stores the buffer, without the lock; the
\* callbacks are called and the partial line kept
handle_io_store ==
    /\ w.pc = "w637"
    /\ HandleIo(w.io, w.data, w.tmp)
    /\ IF w.io = IO_OUT
       THEN w' = [w EXCEPT !.pc = "w567", !.data = << >>, !.tmp = << >>]
       ELSE w' = [w EXCEPT !.pc = "w556", !.data = << >>, !.tmp = << >>,
                           !.streams_out = Tail(@)]
    /\ UNCHANGED << cfg, state, retcode, proc, cancel, buf_in, cbs, fio,
                    env_vars, started, caller, res >>

\* ------------------------------------------------- _watch, the exit check
\* lines 571-573 and 584: proc.poll(); the loop goes on while it is None
watch_exit_poll ==
    /\ w.pc = "w571"
    /\ IF proc = None THEN Crash
       ELSE IF child.st # "exited" THEN Goto("w534")
       ELSE IF cancel THEN w' = [w EXCEPT !.pc = "w574", !.ret = child.code]
       ELSE w' = [w EXCEPT !.pc = "w576", !.ret = child.code]
    /\ UNCHANGED << cfg, obj_vars, env_vars, started, caller, res, hist >>

\* line 574: self._advance(self.CANCELED)
watch_canceled ==
    /\ w.pc = "w574"
    /\ Advance(CANCELED)
    /\ Goto("w587")
    /\ UNCHANGED << cfg, retcode, proc, cancel, buf_in, buf, lbuf, cbs, fio,
                    env_vars, started, caller, res >>

\* lines 576 and 579: self._retcode = ret, without the lock
watch_retcode ==
    /\ w.pc = "w576"
    /\ retcode' = Some(w.ret)
    /\ Goto("w577")
    /\ UNCHANGED << cfg, state, proc, cancel, buf_in, buf, lbuf, cbs, fio,
                    env_vars, started, caller, res, hist >>

\* lines 577 and 580: self._advance(DONE) for code 0, else _advance(FAILED)
watch_finished ==
    /\ w.pc = "w577"
    /\ Advance(IF w.ret = 0 THEN DONE ELSE FAILED)
    /\ Goto("w587")
    /\ UNCHANGED << cfg, retcode, proc, cancel, buf_in, buf, lbuf, cbs, fio,
                    env_vars, started, caller, res >>

\* line 587: self._cleanup(), and the thread ends
watch_cleanup ==
    /\ w.pc = "w587"
    /\ Cleanup
    /\ Goto("returned")
    /\ UNCHANGED << cfg, state, retcode, cancel, buf_in, buf, lbuf, cbs,
                    env_vars, started, caller, res, hist >>

Watch ==
    \/ watch_open \/ watch_spawn \/ watch_spawn_fails \/ watch_started
    \/ watch_running \/ watch_stdin_check \/ watch_stdin_swap \/ watch_stdin_write
    \/ watch_poll \/ watch_for \/ watch_is_stdout \/ watch_is_stderr
    \/ handle_io_load \/ handle_io_store
    \/ watch_exit_poll \/ watch_canceled \/ watch_retcode \/ watch_finished
    \/ watch_cleanup

Child ==
    \/ \E io \in IoTypes : child_write(io)
    \/ \E code \in ExitCodes : child_exit(code)

\* start() called again, here after the watcher thread has ended (it returned,
\* or an exception ended it): nothing in start() prevents it
start_again ==
    /\ caller.start = "returned"
    /\ w.pc \in {"returned", "crashed"}
    /\ hist.starts < MaxStarts
    /\ started' = FALSE
    /\ w' = [w EXCEPT !.pc = "w502"]
    /\ caller' = [caller EXCEPT !.start = "waiting"]
    /\ hist' = [hist EXCEPT !.starts = @ + 1]
    /\ UNCHANGED << cfg, obj_vars, env_vars, res >>

Lifecycle ==
    \/ start_call \/ start_return
    \/ cancel_call
    \/ wait_call \/ wait_final \/ wait_timeout
    \/ exit_cancel \/ exit_cleanup

\* the lifecycle: the pump, the child, and start / cancel / wait / __exit__
Next == Watch \/ Child \/ Lifecycle

Spec == Init /\ [][Next]_vars

\* the output buffers: the pump, the child, start, cancel and the accessors
NextAcc ==
    \/ Watch \/ Child \/ start_call \/ start_return \/ cancel_call
    \/ \E io \in IoTypes : accessor_off(io) \/ accessor_read(io) \/ accessor_clear(io)

\* every output configuration; the input is a stdin=<str> argument, which
\* the accessors do not read
InitAcc == Init /\ cfg.stdin = "str"

SpecAcc == InitAcc /\ [][NextAcc]_vars

\* the pending input: the pump, the child, start, cancel and stdin
NextStdin ==
    \/ Watch \/ Child \/ start_call \/ start_return \/ cancel_call
    \/ stdin(InData(hist.nstdin + 1))

SpecStdin == Init /\ [][NextStdin]_vars

\* the state callbacks and repeated start(): a child that writes to stdout
\* only, state callbacks (which do not raise) registered at any moment
NextRestart ==
    \/ Watch \/ child_write(IO_OUT) \/ (\E code \in ExitCodes : child_exit(code))
    \/ start_call \/ start_return \/ start_again \/ cancel_call
    \/ (hist.ncb < MaxCbs /\ register_cb(CB_STATE, FALSE))

\* Process(cmd, stdin=<str>): both output streams captured (the defaults)
InitRestart == Init /\ cfg = [stdin |-> "str", stdout |-> "on", stderr |-> "on"]

SpecRestart == InitRestart /\ [][NextRestart]_vars

\* find_line: the pump, a child that writes to stdout only, start, cancel,
\* the clock and the polling rounds of find_line
Patterns == {<< >>, << ByteA >>, << ByteA + 1 >>}
Timeouts == {None, Some(0)}

NextFind ==
    \/ Watch \/ child_write(IO_OUT) \/ (\E code \in ExitCodes : child_exit(code))
    \/ start_call \/ start_return \/ cancel_call
    \/ (\E pattern \in Patterns, timeout \in Timeouts : find_line_call(pattern, timeout))
    \/ find_line_read \/ find_line_decide \/ tick

SpecFind == InitRestart /\ [][NextFind]_vars

\* signal: the pump, the child, start, cancel and signal
Signals == {0, SIGTERM}

NextSignal ==
    \/ Watch \/ child_write(IO_OUT) \/ (\E code \in ExitCodes : child_exit(code))
    \/ start_call \/ start_return \/ cancel_call
    \/ (\E sig \in Signals : signal(sig))

SpecSignal == InitRestart /\ [][NextSignal]_vars

\* the registry: the pump, a child that writes to stdout only and exits
\* with 0, start, cancel and register_cb with the five kinds and one that is
\* not a kind; the callbacks registered do not raise
NextReg ==
    \/ Watch \/ child_write(IO_OUT) \/ child_exit(0)
    \/ start_call \/ start_return \/ cancel_call
    \/ (hist.ncb < MaxRegs /\ \E kind \in CbKinds \cup {"invalid"} :
            register_cb(kind, FALSE))

SpecReg == InitRestart /\ [][NextReg]_vars

\* start() repeated after the watcher has ended, with stderr not captured:
\* Process(cmd, stdin=<str>, stderr=False)
NextRecover ==
    \/ Watch \/ child_write(IO_OUT) \/ (\E code \in ExitCodes : child_exit(code))
    \/ start_call \/ start_return \/ start_again \/ cancel_call
    \/ (hist.ncb < MaxCbs /\ \E raises \in BOOLEAN : register_cb(CB_STATE, raises))

InitRecover == Init /\ cfg = [stdin |-> "str", stdout |-> "on", stderr |-> "off"]

SpecRecover == InitRecover /\ [][NextRecover]_vars

\* full pipes: Process(cmd) with the defaults, a child that reads its stdin
\* and makes writes larger than a pipe holds, and stdin() calls with data that
\* fills the pipe to the child
FillIn == [i \in 1..PipeCap |-> 120]

NextPipe ==
    \/ Watch
    \/ (\E io \in IoTypes : child_fill(io) \/ child_unblock(io))
    \/ child_read
    \/ (\E code \in ExitCodes : child_exit(code))
    \/ start_call \/ start_return \/ cancel_call
    \/ stdin(FillIn)

InitPipe == Init /\ cfg = [stdin |-> "on", stdout |-> "on", stderr |-> "on"]

SpecPipe == InitPipe /\ [][NextPipe]_vars

\* the stream modes: each of stdout and stderr disabled or captured, at
\* least one captured, and a watcher thread that runs whenever it can
NextModes ==
    \/ Watch \/ Child
    \/ start_call \/ start_return \/ cancel_call

InitModes ==
    /\ Init
    /\ cfg.stdin = "str"
    /\ cfg.stdout \in {"off", "on"}
    /\ cfg.stderr \in {"off", "on"}
    /\ (cfg.stdout = "on" \/ cfg.stderr = "on")

SpecModes == InitModes /\ [][NextModes]_vars /\ WF_vars(Watch)

\* ------------------------------------- _handle_io called on its own
\* the chunks handed to _handle_io: every byte string of at most MaxChunk
\* bytes, and the two chunks of test_handle_io_line_cb, shortened to
\* "l1" and "a\nl2\nl3"
Bytes == {NL, ByteA, ByteLead, ByteCont}

RECURSIVE ByteStrings(_)
ByteStrings(n) ==
    IF n = 0 THEN { << >> }
    ELSE LET shorter == ByteStrings(n - 1)
         IN  shorter \cup { Append(t, b) : t \in shorter, b \in Bytes }

TestChunk1 == << 108, 49 >>
TestChunk2 == << 97, 10, 108, 50, 10, 108, 51 >>

Chunks == ByteStrings(MaxChunk) \cup {TestChunk1, TestChunk2}

Fed == Len(hist.fed[IO_OUT]) + Len(hist.fed[IO_ERR])

\* _handle_io(io, data) called directly on an instance that was not started,
\* as the unit tests do
handle_io(io, data) ==
    /\ w.pc = "none"
    /\ Fed < MaxFeed
    /\ HandleIo(io, data, buf[io])
    /\ UNCHANGED << cfg, state, retcode, proc, cancel, buf_in, cbs, fio,
                    env_vars, started, w, caller, res >>

\* _advance(s) called directly, for a state other than the current one
advance(s) ==
    /\ w.pc = "none"
    /\ s # state
    /\ Advance(s)
    /\ UNCHANGED << cfg, retcode, proc, cancel, buf_in, buf, lbuf, cbs, fio,
                    env_vars, started, w, caller, res >>

\* the callbacks are registered first; then chunks are handed to _handle_io,
\* or the state is advanced
NextIO ==
    \/ (Fed = 0 /\ state = NEW_ /\ hist.ncb < MaxIOCbs
        /\ \E kind \in CbKinds, raises \in BOOLEAN : register_cb(kind, raises))
    \/ (state = NEW_ /\ \E io \in IoTypes, data \in Chunks : handle_io(io, data))
    \/ (Fed = 0 /\ \E s \in {RUNNING} \cup FINAL : advance(s))

InitIO == Init /\ cfg = [stdin |-> "on", stdout |-> "on", stderr |-> "on"]

SpecIO == InitIO /\ [][NextIO]_vars

\* ------------------------------------------------------------ properties
\* helpers of the properties
RECURSIVE DecodeAll(_)
DecodeAll(chunks) ==
    IF chunks = << >> THEN << >> ELSE Decode(Head(chunks)) \o DecodeAll(Tail(chunks))

RECURSIVE JoinLines(_)
JoinLines(lines) ==
    IF lines = << >> THEN << >> ELSE Head(lines) \o << NL >> \o JoinLines(Tail(lines))

\* the arguments the callback `id` was called with, in call order
ArgsTo(calls, id) ==
    LET To(c) == c.cb = id
        sel   == SelectSeq(calls, To)
    IN  [i \in 1..Len(sel) |-> sel[i].arg]

\* one call of every callback of the list, in registration order
Expected(cbl, kind, arg) ==
    [i \in 1..Len(cbl) |-> [kind |-> kind, cb |-> cbl[i].id, arg |-> arg]]

Raising(cbl) == Cardinality({i \in 1..Len(cbl) : cbl[i].raises})

\* C1: once the state is DONE, FAILED or CANCELED no step changes it or calls
\* a state callback (so every later _advance is ignored), and the state only
\* moves from NEW to RUNNING and from RUNNING to a terminal state.
C1_Monotonic ==
    [][ /\ (state \in FINAL =>
              state' = state /\ hist'.state_calls = hist.state_calls)
        /\ (state' # state =>
              \/ (state = NEW_ /\ state' = RUNNING)
              \/ (state = RUNNING /\ state' \in FINAL)) ]_vars

\* C1 witness: a second watcher has executed _advance(RUNNING) (line 516) in a
\* terminal state, with a state callback registered.
C1_Witness ==
    /\ hist.starts = 2
    /\ w.pc = "w534"
    /\ state \in FINAL
    /\ cbs[CB_STATE] # << >>

\* C2: in every state the exit code is set if and only if the state is DONE
\* or FAILED.
C2_ExitCodeIff == (retcode # None) <=> (state \in {DONE, FAILED})

\* C3: when cancel() was called after start() returned and while the state was
\* RUNNING, the terminal state reached is CANCELED, not DONE or FAILED.
C3_CancelMeansCanceled ==
    (hist.cancel_running /\ state \in FINAL) => state = CANCELED

\* C4: a stdin(data) call in a terminal state fails and leaves the pending
\* input unchanged; in NEW or RUNNING it succeeds and appends data at the end
\* of the pending input.
C4_StdinGuard ==
    [][ hist'.nstdin = hist.nstdin + 1 =>
          IF state \in FINAL
          THEN res'.stdin = "RuntimeError" /\ buf_in' = buf_in
          ELSE res'.stdin = "ok" /\ buf_in' = buf_in \o InData(hist'.nstdin) ]_vars

\* C4 witness: the first stdin() was accepted and appended, the second was made
\* in a terminal state, failed and left the buffer as it was.
C4_Witness ==
    /\ state \in FINAL
    /\ res.stdin = "RuntimeError"
    /\ hist.nstdin = 2
    /\ buf_in = InData(1)

\* C5: the accessor of an enabled stream returns the whole raw buffer and
\* leaves it empty, so that a call made with nothing appended since the last
\* call returns the empty string; the accessor of a disabled stream returns
\* None and changes nothing of the object.
C5_DrainOnRead ==
    [][ /\ \A io \in IoTypes :
             /\ (caller.acc = "idle" /\ caller'.acc = io) =>
                   /\ Mode(io) # "off"
                   /\ caller'.ret = buf[io]
                   /\ (res.accessed[io] /\ ~hist.dirty[io] => caller'.ret = << >>)
             /\ (caller.acc = io /\ caller'.acc = "idle") =>
                   /\ buf'[io] = << >>
                   /\ res'.acc[io] = Some(caller.ret)
             /\ (res'.acc[io] = None /\ res'.accessed[io] /\ ~res.accessed[io]) =>
                   /\ Mode(io) = "off"
                   /\ UNCHANGED obj_vars
        /\ \A io \in IoTypes :
             (Mode(io) = "off" /\ res'.accessed[io]) => res'.acc[io] = None ]_vars

\* C5 witness: stdout returned data and then, read again, the empty string;
\* stderr is disabled and its accessor returned None.
C5_Witness ==
    /\ hist.got[IO_OUT] # << >>
    /\ res.acc[IO_OUT] = Some(<< >>)
    /\ Mode(IO_ERR) = "off"
    /\ res.accessed[IO_ERR]
    /\ res.acc[IO_ERR] = None

\* C6: every chunk read from the child is in the result of exactly one
\* accessor call or still in the raw buffer: what the accessors returned,
\* followed by the raw buffer, is the text of the chunks in read order.
C6_NoChunkLostOrRepeated ==
    \A io \in IoTypes : hist.got[io] \o buf[io] = DecodeAll(hist.fed[io])

C8_Isolation ==
    [][ /\ \A io \in IoTypes :
             Len(hist'.fed[io]) = Len(hist.fed[io]) + 1 =>
                LET sdata == Decode(Last(hist'.fed[io]))
                    cbb   == cbs[ChunkKind(io)]
                    cbl   == cbs[LineKind(io)]
                IN  /\ hist'.chunk_calls =
                          hist.chunk_calls \o Expected(cbb, ChunkKind(io), sdata)
                    /\ hist'.line_calls =
                          hist.line_calls \o
                          (IF HasNL(sdata)
                           THEN Expected(cbl, LineKind(io), LinesOf(lbuf[io], sdata))
                           ELSE << >>)
                    /\ buf'[io] = buf[io] \o sdata
                    /\ lbuf'[io] = LbufAfter(lbuf[io], sdata)
                    /\ hist'.errors = hist.errors + Raising(cbb)
                                      + (IF HasNL(sdata) THEN Raising(cbl) ELSE 0)
        /\ state' # state =>
             /\ hist'.state_calls =
                   hist.state_calls \o Expected(cbs[CB_STATE], CB_STATE, state')
             /\ hist'.errors = hist.errors + Raising(cbs[CB_STATE]) ]_vars

\* C8 witness: the first stdout chunk callback raises, a chunk with a newline
\* was handled, and the stdout line callback registered after it was called.
C8_Witness ==
    /\ cbs[CB_OUT] # << >>
    /\ cbs[CB_OUT][1].raises
    /\ cbs[CB_OUT_LINE] # << >>
    /\ hist.errors > 0
    /\ hist.line_calls # << >>

\* C9: a wait() made after start() returned that returns while the state is
\* DONE or FAILED returns the recorded exit code.
C9_WaitReturnsExitCode ==
    [][ ( /\ caller.start = "returned"
          /\ res'.waited
          /\ res' # res
          /\ state \in {DONE, FAILED} ) =>
        (res'.wait = retcode /\ retcode # None) ]_vars

\* C10: once start() has returned the state is not NEW.
C10_NotNewAfterStart == caller.start = "returned" => state # NEW_

\* C11: when the spawn call raised and the watcher thread has ended, the state
\* is FAILED and the Event start() waits on is set, so that start() returns
\* and a wait() ends.
C11_SpawnFailureFails ==
    (w.pc = "crashed" /\ hist.spawned < hist.starts) =>
        (state = FAILED /\ started)

\* C12: when an exception has ended the watcher thread the state is not left
\* RUNNING and the child is not left alive.
C12_NoDeadPumpWhileRunning ==
    w.pc = "crashed" => (state # RUNNING /\ child.st # "alive")

\* C13: a polling round of find_line that finds no matching line, with the
\* state not FINAL and a timeout that has elapsed, ends the call with None.
C13_TimeoutReturnsNone ==
    [][ ( /\ caller.find = "lines"
          /\ caller'.find # "lines"
          /\ Matching(caller.pattern, caller.lines) = {}
          /\ caller.timeout # None
          /\ caller.now - caller.t0 > caller.timeout[1]
          /\ state \notin FINAL )
        => (caller'.find = "idle" /\ res'.find.out = "None") ]_vars

\* C14: a round of find_line looks at the lines of the stdout raw buffer as
\* read under the lock; when one matches the call returns the first matching
\* line, also in a FINAL state; when none matches and the state is FINAL the
\* call fails with RuntimeError; no step of find_line changes the raw buffer.
C14_FindLineDied ==
    [][ /\ (caller.find = "loop" /\ caller'.find = "lines") =>
              caller'.lines = Split(buf[IO_OUT])
        /\ (caller.find = "lines" /\ caller'.find # "lines") =>
              LET lines == caller.lines
                  hits  == {i \in 1..Len(lines) : Match(caller.pattern, lines[i])}
              IN  /\ hits # {} =>
                        /\ caller'.find = "idle"
                        /\ res'.find.out = "line"
                        /\ \E i \in hits :
                              /\ res'.find.line = lines[i]
                              /\ \A j \in 1..(i - 1) : j \notin hits
                  /\ (hits = {} /\ state \in FINAL) =>
                        /\ caller'.find = "idle"
                        /\ res'.find.out = "RuntimeError"
        /\ (caller'.find # caller.find) => buf' = buf ]_vars

\* C14 witness: find_line failed with RuntimeError in a FINAL state with
\* output in the raw buffer, none of whose lines matches.
C14_Witness ==
    /\ state \in FINAL
    /\ res.find.out = "RuntimeError"
    /\ buf[IO_OUT] # << >>
    /\ Matching(caller.pattern, Split(buf[IO_OUT])) = {}

\* C15: register_cb with a kind that is none of the five fails with ValueError
\* and leaves the registry as it is; with one of the five kinds it succeeds,
\* puts the callback at the end of that kind's list and leaves the lists of
\* the other kinds as they are, in whatever state the process is.
C15_RegisterCb ==
    [][ hist'.ncb = hist.ncb + 1 =>
          LET kind == res'.reg_kind
          IN  IF kind \in CbKinds
              THEN /\ res'.reg = "ok"
                   /\ Len(cbs'[kind]) = Len(cbs[kind]) + 1
                   /\ Front(cbs'[kind]) = cbs[kind]
                   /\ Last(cbs'[kind]).id = hist'.ncb
                   /\ \A other \in CbKinds \ {kind} : cbs'[other] = cbs[other]
              ELSE /\ res'.reg = "ValueError"
                   /\ cbs' = cbs ]_vars

\* C15 witness: after start() returned, in state RUNNING, a second callback
\* was appended to a kind's list.
C15_Witness ==
    /\ caller.start = "returned"
    /\ state = RUNNING
    /\ res.reg = "ok"
    /\ Len(cbs[CB_STATE]) = 2
    /\ ArgsTo(hist.state_calls, 2) = << >>

\* C16: a step that changes the state calls every state callback registered at
\* that moment, in registration order, each once with the new state; a state
\* callback registered before start() has received RUNNING followed by at most
\* one terminal state, and no state callback has received anything after a
\* terminal state.
C16_StateCallbacks ==
    /\ [][ state' # state =>
             /\ Len(hist'.state_calls) = Len(hist.state_calls) + Len(cbs[CB_STATE])
             /\ \A i \in 1..Len(cbs[CB_STATE]) :
                   LET call == hist'.state_calls[Len(hist.state_calls) + i]
                   IN  call.cb = cbs[CB_STATE][i].id /\ call.arg = state' ]_vars
    /\ [](\A i \in 1..Len(cbs[CB_STATE]) :
             LET id   == cbs[CB_STATE][i].id
                 args == ArgsTo(hist.state_calls, id)
             IN  /\ id \in hist.early =>
                       \/ args = << >>
                       \/ args = << RUNNING >>
                       \/ \E f \in FINAL : args = << RUNNING, f >>
                 /\ \A n \in 1..Len(args) : args[n] \in FINAL => n = Len(args))

\* C17: over the whole life of the object at most one child is spawned.
C17_OneChild == hist.spawned <= 1

\* C18: only a step of the watcher thread at one of its _advance calls changes
\* the state, and only at lines 574, 577 and 580 to a terminal state; no step
\* of a public method changes state or exit code; the step of cancel() that
\* sets the flag leaves the rest of the object as it is and the child not
\* running.
C18_SingleWriter ==
    [][ /\ state' # state =>
              /\ w.pc \in {"w516", "w574", "w577"}
              /\ w'.pc # w.pc
              /\ caller' = caller
              /\ res' = res
        /\ (state' \in FINAL /\ state \notin FINAL) => w.pc \in {"w574", "w577"}
        /\ (caller' # caller \/ res' # res \/ cancel' # cancel) =>
              (state' = state /\ retcode' = retcode)
        /\ cancel' # cancel =>
              /\ cancel'
              /\ UNCHANGED << proc, buf_in, buf, lbuf, cbs, fio, w >>
              /\ child'.st # "alive" ]_vars

\* C18 witness: cancel() was called in state RUNNING after start() returned,
\* and the watcher has then made the transition to CANCELED.
C18_Witness ==
    /\ hist.cancel_running
    /\ state = CANCELED
    /\ w.pc = "w587"

\* C19: a signal() call leaves state, exit code, cancellation flag, buffers,
\* registry and files as they are; without a child handle it delivers nothing
\* and changes nothing.
C19_SignalFrame ==
    [][ hist'.nsig = hist.nsig + 1 =>
          /\ UNCHANGED << state, retcode, proc, cancel, buf_in, buf, lbuf, cbs, fio >>
          /\ UNCHANGED << pipe, child_in, started, w >>
          /\ proc = None => (child' = child /\ res'.signal = "noop") ]_vars

\* C19 witness: SIGTERM sent by signal() ended the child; the flag is not set
\* and the watcher has classified the exit as FAILED.
C19_Witness ==
    /\ res.signal = "sent"
    /\ child.code = 0 - SIGTERM
    /\ ~cancel
    /\ state = FAILED
    /\ retcode = Some(0 - SIGTERM)

\* C20: in state DONE the exit code is 0, in state FAILED it is a code other
\* than 0, and in state CANCELED the cancellation flag is set.
C20_ExitClassification ==
    /\ state = DONE => retcode = Some(0)
    /\ state = FAILED => (retcode # None /\ retcode[1] # 0)
    /\ state = CANCELED => cancel

\* C21: from line 504 on, the input handed to proc.stdin.write, followed by
\* the input the watcher has taken and not yet written, followed by the pending
\* input, is the data of the accepted stdin() calls in call order (after the
\* input that was pending at line 504): nothing accepted is dropped or written
\* twice, whatever the interleaving of stdin() with the swap and the write.
C21_DrainAtomic ==
    (hist.starts > 0 /\ w.pc # "w502") =>
        hist.written \o w.buf_in \o buf_in = hist.due

\* C21 witness: with stdin=True, the second stdin() call was accepted in state
\* RUNNING while the watcher was between its swap, which took the data of the
\* first call, and its write.
C21_Witness ==
    /\ cfg.stdin = "on"
    /\ state = RUNNING
    /\ child.st = "alive"
    /\ w.pc = "w542"
    /\ w.buf_in = InData(1)
    /\ buf_in = InData(2)
    /\ res.stdin = "ok"

\* the watcher is inside poll_in.poll() (line 536) or inside flush() (line
\* 543) and the pipe to the child has no room
PumpWaits ==
    \/ /\ w.pc = "w534"
       /\ cfg.stdin # "off"
       /\ buf_in # << >>
       /\ ~Writable
    \/ /\ w.pc = "w542"
       /\ proc # None
       /\ child.st = "alive"
       /\ w.buf_in # << >>
       /\ InPipe = PipeCap

\* the child is inside a write call on an output pipe that is full
ChildWaits ==
    /\ child.st = "alive"
    /\ child.blocked # "no"
    /\ pipe[child.blocked] # << >>

\* C22: no state is reached where the watcher waits for room in the child's
\* stdin while the child waits for the watcher to read its output: the
\* watcher's wait for a writable stdin ends after the poll interval and the
\* watcher goes on to read the output streams.
C22_NoMutualWait == ~(PumpWaits /\ ChildWaits)

\* C23: when the watcher thread has ended after it entered its loop, by the
\* exit of the child, by cancellation or by an exception, the redirect files
\* are closed and the child handle is dropped.
C23_HandlesReleased ==
    (w.pc \in {"returned", "crashed"} /\ state # NEW_) =>
        /\ \A io \in IoTypes : fio[io] = "None"
        /\ proc = None

\* the number of chunks the child has written to a stream
Written(io) == IF io = IO_OUT THEN child.nout ELSE child.nerr

\* C24: in a terminal state, for every enabled output stream, nothing the
\* child wrote is left unread in the pipe: every chunk it wrote has been
\* handed to _handle_io, which appends it to the raw buffer and calls the
\* callbacks.
C24_OutputComplete ==
    state \in FINAL =>
        \A io \in IoTypes :
            Mode(io) # "off" =>
                /\ pipe[io] = << >>
                /\ Len(hist.fed[io]) = Written(io)

\* C25: in every combination of stream modes with a captured stream, once the
\* started child has written to a captured stream and has exited, a terminal
\* state is reached.
C25_ModesTerminate ==
    (child.st = "exited" /\ child.nout + child.nerr > 0) ~> (state \in FINAL)

\* C26: the watcher never acts on a cleared child handle: no step of the
\* watcher at a line that uses self._proc (542, 563, 567, 571) is taken
\* after __exit__ has set the handle to None.
C26_NoClearedHandle ==
    [][ (w.pc \in {"w542", "w563", "w567", "w571"} /\ w'.pc # w.pc) =>
            proc # None ]_vars

\* the initial input string of the constructor, empty for stdin=True
Initial == IF cfg.stdin = "str" THEN InitIn ELSE << >>

\* C27: with stdin enabled, when the watcher starts (lines 502-504) the data
\* that stdin() has appended in state NEW stays in the pending input, in call
\* order and after the initial input string, from where the watcher writes it
\* to the child.
C27_EarlyInputKept ==
    [][ (w.pc = "w502" /\ w'.pc # "w502" /\ cfg.stdin # "off") =>
            buf_in' = Initial \o buf_in ]_vars

====
